---- MODULE Spec2Model ----
(***************************************************************************)
(* Model of src/src/model.ts: the ModelClass builder of the management     *)
(* SDK.  Every builder operation receives a caller-owned argument object,  *)
(* mutates it in place, wraps it in a Field change item and registers the  *)
(* item with the change listener.                                          *)
(*                                                                         *)
(* JavaScript objects are functions from their own keys to values, so      *)
(* that `delete`, Object.keys and "key is absent" are all expressible.     *)
(* Caller-owned argument objects live in `heap` and are passed by          *)
(* reference, as in the source; object literals nested in an argument      *)
(* object (remoteConfig, reverseField, validations) belong to it.          *)
(***************************************************************************)
EXTENDS Integers, Sequences, FiniteSets, TLC

VARIABLES
    models,   \* the ModelClass instances constructed so far: [mode, args]
    heap,     \* the caller-owned argument objects, by reference (index):
              \* [kind: the declared type of the caller's variable, obj]
    changes,  \* the change listener's ordered list of registered items
    log,      \* the operations that returned normally, in call order
    last      \* the most recent call: operation, outcome, builder, input

vars == <<models, heap, changes, log, last>>

(* ------------------------------ bounds -------------------------------- *)

MaxObjs == 1      \* caller-owned argument objects alive in one session
MaxChanges == 2   \* registered change items in one session
MaxModels == 2    \* ModelClass instances constructed in SpecItem

(* ------------------------- JavaScript objects ------------------------- *)

\* the value `undefined` stored under a key
Undef == "undefined"
\* `undefined` stored under a key that otherwise holds a list
UndefList == <<Undef>>
\* the object literal {}
EmptyObj == [k \in {} |-> TRUE]

Has(o, k) == k \in DOMAIN o
Get(o, k) == IF Has(o, k) THEN o[k] ELSE Undef
GetList(o, k) == IF Has(o, k) THEN o[k] ELSE UndefList
Put(o, k, v) == [x \in DOMAIN o \cup {k} |-> IF x = k THEN v ELSE o[x]]
Del(o, k) == [x \in DOMAIN o \ {k} |-> o[x]]

\* truthiness of a string-valued property
TruthyStr(o, k) == Has(o, k) /\ o[k] \notin {"", Undef}
\* truthiness of a boolean-valued property
TruthyBool(o, k) == Has(o, k) /\ o[k]
\* truthiness of an object- or array-valued property (every object is truthy)
TruthyObj(o, k) == Has(o, k)

(* Values a header slot can hold, tagged with what Array.isArray and       *)
(* constructor.name see.                                                    *)
Str(s) == [tag |-> "String", str |-> s]
Arr(xs) == [tag |-> "Array", elems |-> xs]
Obj(entries) == [tag |-> "Object", entries |-> entries]
MapInst == [tag |-> "Map"]

IsArray(v) == v.tag = "Array"
ConstructorName(v) == v.tag

(* ------------------------------ enums --------------------------------- *)

MutationModes == {"Create", "Update", "Delete"}
RelationTypes == {"OneToOne", "OneToMany", "ManyToOne", "ManyToMany"}

\* the template strings `related${x}` and `Related ${x}`
RelatedApiId(x) ==
    CASE x = "Post" -> "relatedPost"
      [] x = "Page" -> "relatedPage"
      [] x = "author" -> "relatedauthor"
      [] x = "cover" -> "relatedcover"
      [] x = "content" -> "relatedcontent"
      [] OTHER -> "related?"
RelatedDisplayName(x) ==
    CASE x = "Post" -> "Related Post"
      [] x = "Page" -> "Related Page"
      [] x = "author" -> "Related author"
      [] x = "cover" -> "Related cover"
      [] x = "content" -> "Related content"
      [] OTHER -> "Related ?"

(* --------------------------- change items ----------------------------- *)

(* new Field(args, mode, type): the item keeps the object it was given.    *)
(* ref > 0: the caller's object heap[ref]; ref = 0: a fresh object `own`   *)
(* that only the item references.                                          *)
Field(ref, own, mode, type) ==
    [ref |-> ref, own |-> own, mode |-> mode, type |-> type]

\* the payload an item renders, read through its reference
PayloadIn(h, item) == IF item.ref = 0 THEN item.own ELSE h[item.ref].obj
Payload(item) == PayloadIn(heap, item)

\* listener.registerChange(field)
registerChange(list, field) == Append(list, field)

\* what a builder operation hands back: the error it threw ("" for none),
\* the caller's object as the call left it, and the list it registered into
Outcome(err, fieldArgs, list) == [err |-> err, fieldArgs |-> fieldArgs, list |-> list]

(* ----------------------- Validation extractor -------------------------- *)

\* fieldArgs.validations?.<k>: validations is truthy wherever this is read
ValidationOf(fieldArgs, k) == Get(fieldArgs.validations, k)

\* slip: listItemCount copied whether or not the field is a list
WithListItemCountAlways(fieldArgs, v) ==
    Put(v, "listItemCount", ValidationOf(fieldArgs, "listItemCount"))

\* validations.<T>.listItemCount is assigned only when fieldArgs.isList is truthy
WithListItemCount(fieldArgs, v) ==
    IF TruthyBool(fieldArgs, "isList")
    THEN Put(v, "listItemCount", ValidationOf(fieldArgs, "listItemCount"))
    ELSE v

\* extractFieldValidations(fieldArgs): [err, validations]
extractFieldValidations(fieldArgs) ==
    LET type == Get(fieldArgs, "type") IN
    CASE type = "INT" ->
           [err |-> "",
            validations |-> [Int |->
                WithListItemCount(fieldArgs, [range |-> ValidationOf(fieldArgs, "range")])]]
      [] type = "FLOAT" ->
           [err |-> "",
            validations |-> [Float |->
                WithListItemCount(fieldArgs, [range |-> ValidationOf(fieldArgs, "range")])]]
      [] type = "STRING" ->
           [err |-> "",
            validations |-> [String |->
                WithListItemCount(fieldArgs,
                    [characters |-> ValidationOf(fieldArgs, "characters"),
                     matches |-> ValidationOf(fieldArgs, "matches"),
                     notMatches |-> ValidationOf(fieldArgs, "notMatches")])]]
      [] OTHER -> [err |-> "validations", validations |-> EmptyObj]

(* -------------------------- builder operations ------------------------ *)
(* Each takes the builder (this), the caller's object, the reference it was *)
(* passed by and the listener's list, and yields an Outcome.               *)

addSimpleField(this, fieldArgs, ref, list) ==
    LET a1 == Put(fieldArgs, "modelApiId", this.args.apiId)
        a2 == IF Get(a1, "type") = "STRING"
              THEN Put(a1, "formRenderer",
                       IF TruthyStr(a1, "formRenderer") THEN a1.formRenderer
                       ELSE "SINGLE_LINE")
              ELSE a1
        ex == extractFieldValidations(a2)
    IN  IF TruthyObj(a2, "validations")
        THEN IF ex.err # ""
             THEN Outcome(ex.err, a2, list)
             ELSE Outcome("", Put(a2, "validations", ex.validations),
                          registerChange(list, Field(ref, EmptyObj, "Create", "SimpleField")))
        ELSE Outcome("", a2,
                     registerChange(list, Field(ref, EmptyObj, "Create", "SimpleField")))

\* slip: every header value wrapped, arrays included
NormalizeHeaderAlwaysWrap(v) == Arr(<<v>>)

\* the header loop: wrap non-array values into arrays
NormalizeHeader(v) == IF IsArray(v) THEN v ELSE Arr(<<v>>)
NormalizeHeaders(headers) ==
    Obj([k \in DOMAIN headers.entries |-> NormalizeHeader(headers.entries[k])])

\* the defaults applied to remoteConfig after the headers are settled
RemoteDefaults(rc) ==
    LET r1 == IF TruthyObj(rc, "payloadFieldApiIds") THEN rc
              ELSE Put(rc, "payloadFieldApiIds", <<>>)
    IN  IF TruthyStr(r1, "method") THEN r1 ELSE Put(r1, "method", "GET")

addRemoteField(this, fieldArgs, ref, list) ==
    LET a1 == Put(Put(fieldArgs, "modelApiId", this.args.apiId), "type", "REMOTE")
    IN  IF ~TruthyObj(a1, "remoteConfig")
        THEN Outcome("TypeError", a1, list)
        ELSE LET rc == a1.remoteConfig IN
             IF TruthyObj(rc, "headers") /\ ConstructorName(rc.headers) # "Object"
             THEN Outcome("headers", a1, list)
             ELSE LET rc1 == IF TruthyObj(rc, "headers")
                             THEN Put(rc, "headers", NormalizeHeaders(rc.headers))
                             ELSE Put(rc, "headers", Obj(EmptyObj))
                  IN  Outcome("", Put(a1, "remoteConfig", RemoteDefaults(rc1)),
                              registerChange(list, Field(ref, EmptyObj, "Create", "RemoteField")))

\* slip: the update registered in Create mode
updateSimpleFieldAsCreate(this, fieldArgs, ref, list) ==
    LET a1 == Put(fieldArgs, "modelApiId", this.args.apiId)
        ex == extractFieldValidations(a1)
        a2 == IF TruthyObj(a1, "validations") /\ ex.err = ""
              THEN Put(a1, "validations", ex.validations) ELSE a1
    IN  IF TruthyObj(a1, "validations") /\ ex.err # ""
        THEN Outcome(ex.err, a1, list)
        ELSE Outcome("", a2,
                     registerChange(list, Field(0, Del(a2, "type"), "Create", "SimpleField")))

\* slip: the type attribute left in the outgoing payload
updateSimpleFieldKeepsType(this, fieldArgs, ref, list) ==
    LET a1 == Put(fieldArgs, "modelApiId", this.args.apiId)
        ex == extractFieldValidations(a1)
        a2 == IF TruthyObj(a1, "validations") /\ ex.err = ""
              THEN Put(a1, "validations", ex.validations) ELSE a1
    IN  IF TruthyObj(a1, "validations") /\ ex.err # ""
        THEN Outcome(ex.err, a1, list)
        ELSE Outcome("", a2, registerChange(list, Field(0, a2, "Update", "SimpleField")))

updateSimpleField(this, fieldArgs, ref, list) ==
    LET a1 == Put(fieldArgs, "modelApiId", this.args.apiId)
        ex == extractFieldValidations(a1)
        a2 == IF TruthyObj(a1, "validations") /\ ex.err = ""
              THEN Put(a1, "validations", ex.validations) ELSE a1
    IN  IF TruthyObj(a1, "validations") /\ ex.err # ""
        THEN Outcome(ex.err, a1, list)
        ELSE Outcome("", a2,
                     registerChange(list, Field(0, Del(a2, "type"), "Update", "SimpleField")))

\* the wire relation kind chosen at the top of addRelationalField
RelationKind(fieldArgs) ==
    IF Get(fieldArgs, "type") = "ASSET" \/ Get(fieldArgs, "model") = "Asset"
    THEN "ASSET" ELSE "RELATION"

\* slip: the reverse field named from the field's own apiId
SynthReverseFieldFromField(fieldArgs) ==
    [apiId |-> RelatedApiId(fieldArgs.apiId),
     displayName |-> RelatedDisplayName(fieldArgs.apiId)]

\* the reverse field synthesized when the caller supplied none
SynthReverseField(fieldArgs) ==
    [apiId |-> RelatedApiId(fieldArgs.modelApiId),
     displayName |-> RelatedDisplayName(fieldArgs.modelApiId)]

\* list-ness of the two sides, read off fieldArgs.relationType
ForwardIsList(fieldArgs) == Get(fieldArgs, "relationType") \in {"OneToMany", "ManyToMany"}
\* slip: the reverse side given the forward side's relation types
ReverseIsListSwapped(fieldArgs) ==
    Get(fieldArgs, "relationType") \in {"OneToMany", "ManyToMany"}
ReverseIsList(fieldArgs) == Get(fieldArgs, "relationType") \in {"ManyToOne", "ManyToMany"}

\* slip: the asset's reverse field not hidden
AssetAdjustNotHidden(a) ==
    IF a.type = "ASSET"
    THEN LET a1 == IF ~Has(a, "isRequired") THEN Put(a, "isRequired", FALSE) ELSE a
         IN  Put(a1, "reverseField", Put(a1.reverseField, "isList", TRUE))
    ELSE Del(a, "isRequired")

\* the ASSET / RELATION branch of addRelationalField
AssetAdjust(a) ==
    IF a.type = "ASSET"
    THEN LET a1 == IF ~Has(a, "isRequired") THEN Put(a, "isRequired", FALSE) ELSE a
         IN  Put(a1, "reverseField",
                 Put(Put(a1.reverseField, "isList", TRUE), "isHidden", TRUE))
    ELSE Del(a, "isRequired")

addRelationalField(this, fieldArgs, ref, list) ==
    LET a1 == Put(fieldArgs, "modelApiId", this.args.apiId)
        a2 == Put(a1, "type", RelationKind(a1))
        a3 == IF TruthyObj(a2, "reverseField") THEN a2
              ELSE Put(a2, "reverseField", SynthReverseField(a2))
        a4 == Put(a3, "reverseField",
                  Put(a3.reverseField, "modelApiId", Get(a3, "model")))
        a5 == Put(a4, "isList", ForwardIsList(a4))
        a6 == Put(a5, "reverseField",
                  Put(a5.reverseField, "isList", ReverseIsList(a5)))
        a7 == AssetAdjust(a6)
        a8 == Del(Del(a7, "model"), "relationType")
    IN  Outcome("", a8,
                registerChange(list, Field(ref, EmptyObj, "Create", "RelationalField")))

\* slip: the item registered before the models check
addUnionFieldRegistersFirst(this, fieldArgs, ref, list) ==
    LET a1 == Put(fieldArgs, "modelApiId", this.args.apiId)
        reg == registerChange(list, Field(ref, EmptyObj, "Create", "UnionField"))
        a3 == IF TruthyObj(a1, "reverseField") THEN a1
              ELSE Put(a1, "reverseField", SynthReverseField(a1))
        a4 == Put(a3, "reverseField",
                  Put(a3.reverseField, "modelApiIds", a3.models))
        a5 == Put(a4, "isList", ForwardIsList(a4))
        a6 == Put(a5, "reverseField",
                  Put(a5.reverseField, "isList", ReverseIsList(a5)))
        a8 == Del(Del(a6, "models"), "relationType")
    IN  IF ~Has(a1, "models") \/ Len(a1.models) = 0
        THEN Outcome("models", a1, reg)
        ELSE Outcome("", a8, reg)

addUnionField(this, fieldArgs, ref, list) ==
    LET a1 == Put(fieldArgs, "modelApiId", this.args.apiId)
        a3 == IF TruthyObj(a1, "reverseField") THEN a1
              ELSE Put(a1, "reverseField", SynthReverseField(a1))
        a4 == Put(a3, "reverseField",
                  Put(a3.reverseField, "modelApiIds", a3.models))
        a5 == Put(a4, "isList", ForwardIsList(a4))
        a6 == Put(a5, "reverseField",
                  Put(a5.reverseField, "isList", ReverseIsList(a5)))
        a8 == Del(Del(a6, "models"), "relationType")
    IN  IF ~Has(a1, "models") \/ Len(a1.models) = 0
        THEN Outcome("models", a1, list)
        ELSE Outcome("", a8,
                     registerChange(list, Field(ref, EmptyObj, "Create", "UnionField")))

updateRelationalField(this, fieldArgs, ref, list) ==
    Outcome("", Put(fieldArgs, "modelApiId", this.args.apiId),
            registerChange(list, Field(ref, EmptyObj, "Update", "RelationalField")))

updateUnionField(this, fieldArgs, ref, list) ==
    LET a1 == Put(fieldArgs, "modelApiId", this.args.apiId)
        a2 == Put(a1, "reverseField", [modelApiIds |-> GetList(a1, "models")])
    IN  Outcome("", Del(a2, "models"),
                registerChange(list, Field(ref, EmptyObj, "Update", "UnionField")))

addEnumerableField(this, fieldArgs, ref, list) ==
    IF ~TruthyStr(fieldArgs, "enumerationApiId")
    THEN Outcome("enumerationApiId", fieldArgs, list)
    ELSE Outcome("", Put(fieldArgs, "modelApiId", this.args.apiId),
                 registerChange(list, Field(ref, EmptyObj, "Create", "EnumerableField")))

updateEnumerableField(this, fieldArgs, ref, list) ==
    Outcome("", Put(fieldArgs, "modelApiId", this.args.apiId),
            registerChange(list, Field(ref, EmptyObj, "Update", "EnumerableField")))

\* deleteField(apiId): the payload is a fresh object literal
deleteField(this, apiId, list) ==
    registerChange(list,
        Field(0, [apiId |-> apiId, modelApiId |-> this.args.apiId], "Delete", "SimpleField"))

\* slip: the key count compared with 0
hasChangesAnyKey(this) ==
    IF this.mode # "Update" THEN TRUE
    ELSE IF Cardinality(DOMAIN this.args) > 0 THEN TRUE
    ELSE FALSE

\* hasChanges() of a ModelClass instance
hasChanges(this) ==
    IF this.mode # "Update" THEN TRUE
    ELSE IF Cardinality(DOMAIN this.args) > 1 THEN TRUE
    ELSE FALSE

\* new ModelClass(listener, mode, args)
ModelClass(mode, args) == [mode |-> mode, args |-> args]

(* ------------------------- the caller's inputs ------------------------ *)

\* a generic validation request
Validations == [range |-> "range", characters |-> "characters",
                matches |-> "matches", listItemCount |-> "listItemCount"]

SimpleInputs ==
    LET typed == {[apiId |-> "title"]}
                 \cup {[apiId |-> "title", type |-> t] :
                          t \in {"STRING", "INT", "FLOAT", "BOOLEAN"}}
        listed == typed \cup {Put(o, "isList", TRUE) : o \in typed}
    IN  listed
        \cup {Put(o, "validations", Validations) : o \in listed}
        \cup {[apiId |-> "title", type |-> "STRING", formRenderer |-> "MARKDOWN"]}

HeaderInputs ==
    {Obj([XKey |-> Str("abc")]),
     Obj([XKey |-> Arr(<<Str("abc")>>), Accept |-> Str("json")]),
     Obj([XKey |-> Arr(<<Str("a"), Str("b")>>)]),
     Arr(<<Str("abc")>>),
     MapInst}

RemoteConfigs ==
    LET headed == {EmptyObj} \cup {[headers |-> h] : h \in HeaderInputs}
        methods == headed \cup {Put(rc, "method", m) : rc \in headed, m \in {"GET", "POST"}}
    IN  methods \cup {Put(rc, "payloadFieldApiIds", ids) : rc \in methods, ids \in {<<>>, <<"id">>}}

RemoteInputs ==
    {[apiId |-> "weather", remoteConfig |-> rc] : rc \in RemoteConfigs}

RelationTargets ==
    {[apiId |-> "author", model |-> "User"],
     [apiId |-> "cover", model |-> "Asset"],
     [apiId |-> "cover", model |-> "User", type |-> "ASSET"]}

RelationInputs ==
    LET typed == {Put(o, "relationType", t) : o \in RelationTargets, t \in RelationTypes}
        reversed == typed \cup {Put(o, "reverseField",
                                    [apiId |-> "posts", displayName |-> "Posts"]) : o \in typed}
    IN  reversed \cup {Put(o, "isRequired", TRUE) : o \in reversed}

UnionInputs ==
    LET typed == {[apiId |-> "content", models |-> <<"Post", "Page">>, relationType |-> t] :
                     t \in RelationTypes}
    IN  typed
        \cup {Put(o, "reverseField", [apiId |-> "blocks", displayName |-> "Blocks"]) : o \in typed}
        \cup {[apiId |-> "content", models |-> <<>>, relationType |-> "OneToOne"],
              [apiId |-> "content", relationType |-> "OneToMany"]}

UpdateRelationInputs == {[apiId |-> "author", displayName |-> "Author"]}
UpdateUnionInputs == {[apiId |-> "content", models |-> <<"Post">>], [apiId |-> "content"]}
EnumInputs == {[apiId |-> "status", enumerationApiId |-> "Status"],
               [apiId |-> "status", enumerationApiId |-> ""],
               [apiId |-> "status"]}
DeleteInputs == {"title", "author"}

\* the create/update payloads a model is constructed with
ModelArgs == {[apiId |-> "Post"],
              [apiId |-> "Post", displayName |-> "Post"],
              [apiId |-> "Page", description |-> Undef],
              [apiId |-> "Page", displayName |-> "Page", description |-> "A page"]}

(* --------------------------- the state machine ------------------------ *)

NoCall == [op |-> "", err |-> "", b |-> 0, ref |-> 0, arg |-> EmptyObj, ret |-> FALSE]

\* one migration session with two models under construction
Init ==
    /\ models = <<ModelClass("Create", [apiId |-> "Post"]),
                  ModelClass("Update", [apiId |-> "Page"])>>
    /\ heap = <<>>
    /\ changes = <<>>
    /\ log = <<>>
    /\ last = NoCall

\* the ways a caller can pass an argument object: one it already holds in a
\* variable of the parameter's declared type, or a fresh literal from Inputs
Passable(kind, Inputs) ==
    {[h |-> heap, r |-> r] : r \in {x \in DOMAIN heap : heap[x].kind = kind}}
    \cup (IF Len(heap) < MaxObjs
          THEN {[h |-> Append(heap, [kind |-> kind, obj |-> a]), r |-> Len(heap) + 1] :
                   a \in Inputs}
          ELSE {})

\* the effect of one call on the session
Invoke(op, b, p, out) ==
    /\ heap' = [p.h EXCEPT ![p.r].obj = out.fieldArgs]
    /\ changes' = out.list
    /\ log' = IF out.err = "" THEN Append(log, op) ELSE log
    /\ last' = [op |-> op, err |-> out.err, b |-> b, ref |-> p.r,
                arg |-> p.h[p.r].obj, ret |-> FALSE]
    /\ UNCHANGED models

CanCall == Len(changes) < MaxChanges

AddSimpleField(Inputs) ==
    /\ CanCall
    /\ \E b \in DOMAIN models : \E p \in Passable("Simple", Inputs) :
          Invoke("addSimpleField", b, p, addSimpleField(models[b], p.h[p.r].obj, p.r, changes))

AddRemoteField(Inputs) ==
    /\ CanCall
    /\ \E b \in DOMAIN models : \E p \in Passable("Remote", Inputs) :
          Invoke("addRemoteField", b, p, addRemoteField(models[b], p.h[p.r].obj, p.r, changes))

UpdateSimpleField(Inputs) ==
    /\ CanCall
    /\ \E b \in DOMAIN models : \E p \in Passable("Simple", Inputs) :
          Invoke("updateSimpleField", b, p, updateSimpleField(models[b], p.h[p.r].obj, p.r, changes))

AddRelationalField(Inputs) ==
    /\ CanCall
    /\ \E b \in DOMAIN models : \E p \in Passable("Relational", Inputs) :
          Invoke("addRelationalField", b, p, addRelationalField(models[b], p.h[p.r].obj, p.r, changes))

AddUnionField(Inputs) ==
    /\ CanCall
    /\ \E b \in DOMAIN models : \E p \in Passable("Union", Inputs) :
          Invoke("addUnionField", b, p, addUnionField(models[b], p.h[p.r].obj, p.r, changes))

UpdateRelationalField(Inputs) ==
    /\ CanCall
    /\ \E b \in DOMAIN models : \E p \in Passable("Relational", Inputs) :
          Invoke("updateRelationalField", b, p,
                 updateRelationalField(models[b], p.h[p.r].obj, p.r, changes))

UpdateUnionField(Inputs) ==
    /\ CanCall
    /\ \E b \in DOMAIN models : \E p \in Passable("Union", Inputs) :
          Invoke("updateUnionField", b, p, updateUnionField(models[b], p.h[p.r].obj, p.r, changes))

AddEnumerableField(Inputs) ==
    /\ CanCall
    /\ \E b \in DOMAIN models : \E p \in Passable("Enumerable", Inputs) :
          Invoke("addEnumerableField", b, p, addEnumerableField(models[b], p.h[p.r].obj, p.r, changes))

UpdateEnumerableField(Inputs) ==
    /\ CanCall
    /\ \E b \in DOMAIN models : \E p \in Passable("Enumerable", Inputs) :
          Invoke("updateEnumerableField", b, p,
                 updateEnumerableField(models[b], p.h[p.r].obj, p.r, changes))

DeleteField ==
    /\ CanCall
    /\ \E b \in DOMAIN models : \E apiId \in DeleteInputs :
          /\ changes' = deleteField(models[b], apiId, changes)
          /\ log' = Append(log, "deleteField")
          /\ last' = [op |-> "deleteField", err |-> "", b |-> b, ref |-> 0,
                      arg |-> [apiId |-> apiId], ret |-> FALSE]
          /\ UNCHANGED <<models, heap>>

\* the argument literals of one ordinary migration session
SessionSimple == {[apiId |-> "title", type |-> "STRING"],
                  [apiId |-> "title", type |-> "BOOLEAN", validations |-> Validations]}
SessionRemote == {[apiId |-> "weather", remoteConfig |-> [headers |-> Obj([XKey |-> Str("abc")])]],
                  [apiId |-> "weather", remoteConfig |-> [headers |-> Arr(<<Str("abc")>>)]]}
SessionRelation == {[apiId |-> "author", model |-> "User", relationType |-> "ManyToOne"]}
SessionUnion == {[apiId |-> "content", models |-> <<"Post", "Page">>, relationType |-> "OneToMany"],
                 [apiId |-> "content", models |-> <<>>, relationType |-> "OneToMany"]}
SessionEnum == {[apiId |-> "status", enumerationApiId |-> "Status"], [apiId |-> "status"]}

Next ==
    \/ AddSimpleField(SessionSimple)
    \/ AddRemoteField(SessionRemote)
    \/ UpdateSimpleField(SessionSimple)
    \/ AddRelationalField(SessionRelation)
    \/ AddUnionField(SessionUnion)
    \/ UpdateRelationalField(UpdateRelationInputs)
    \/ UpdateUnionField(UpdateUnionInputs)
    \/ AddEnumerableField(SessionEnum)
    \/ UpdateEnumerableField(SessionEnum)
    \/ DeleteField

Spec == Init /\ [][Next]_vars

(* One category at a time, over every shape of argument literal: the      *)
(* caller holds one literal and passes it, and passes it again.            *)

Holding(kind, Inputs) == {<<[kind |-> kind, obj |-> a]>> : a \in Inputs}

InitHolding(objects) ==
    /\ models = <<ModelClass("Create", [apiId |-> "Post"]),
                  ModelClass("Update", [apiId |-> "Page"])>>
    /\ heap \in objects
    /\ changes = <<>>
    /\ log = <<>>
    /\ last = NoCall

InitSimple == InitHolding(Holding("Simple", SimpleInputs))
NextSimple ==
    \/ AddSimpleField({})
    \/ UpdateSimpleField({})
SpecSimple == InitSimple /\ [][NextSimple]_vars

InitRemote == InitHolding(Holding("Remote", RemoteInputs))
NextRemote == AddRemoteField({})
SpecRemote == InitRemote /\ [][NextRemote]_vars

InitRelation ==
    InitHolding(Holding("Relational", RelationInputs) \cup Holding("Union", UnionInputs))
NextRelation ==
    \/ AddRelationalField({})
    \/ AddUnionField({})
SpecRelation == InitRelation /\ [][NextRelation]_vars

(* Change items of the model kind: construct ModelClass instances and ask  *)
(* each whether it has changes.                                            *)

InitItem ==
    /\ models = <<>>
    /\ heap = <<>>
    /\ changes = <<>>
    /\ log = <<>>
    /\ last = NoCall

NewModel ==
    /\ Len(models) < MaxModels
    /\ \E mode \in MutationModes : \E args \in ModelArgs :
          models' = Append(models, ModelClass(mode, args))
    /\ UNCHANGED <<heap, changes, log, last>>

HasChanges ==
    \E b \in DOMAIN models :
       /\ last' = [op |-> "hasChanges", err |-> "", b |-> b, ref |-> 0,
                   arg |-> models[b].args, ret |-> hasChanges(models[b])]
       /\ UNCHANGED <<models, heap, changes, log>>

NextItem ==
    \/ NewModel
    \/ HasChanges
SpecItem == InitItem /\ [][NextItem]_vars

(* ------------------------------- claims ------------------------------- *)

\* the call that has just returned normally was `op`
Returned(op) == last.op = op /\ last.err = ""
\* the payload of the item the last call registered
Registered == Payload(changes[Len(changes)])
\* the builder the last call was made on
Builder == models[last.b]

ModeOf(op) ==
    CASE op \in {"addSimpleField", "addRemoteField", "addRelationalField",
                 "addUnionField", "addEnumerableField"} -> "Create"
      [] op \in {"updateSimpleField", "updateRelationalField",
                 "updateUnionField", "updateEnumerableField"} -> "Update"
      [] op = "deleteField" -> "Delete"

\* the failures C1 lists
ListedFailures == {"headers", "models", "enumerationApiId", "validations"}

(* C1: a builder operation that fails for one of the listed reasons        *)
(* registers no change item: the listener's list after the call is the     *)
(* list before it, the same items in the same order.  (An item is the      *)
(* Field object: its mode, its category and the argument object it holds;  *)
(* what a held object contains later is C9's subject.)                     *)
C1_FailureRegistersNothing ==
    [][last'.err \in ListedFailures => changes' = changes]_vars

\* addUnionField has failed for want of models on a list that already
\* holds an item, and the list still holds just that item
C1_Witness ==
    /\ last.err \in ListedFailures
    /\ last.op = "addUnionField"
    /\ Len(changes) = 1

(* C2: after any sequence of calls the list holds exactly one item per     *)
(* call that returned normally, in call order, each in the mode of its     *)
(* operation: Create for add*, Update for update*, Delete for deleteField. *)
C2_OneItemPerCall ==
    /\ [](/\ Len(changes) = Len(log)
          /\ \A i \in DOMAIN changes : changes[i].mode = ModeOf(log[i]))
    /\ [][log' # log =>
            /\ log' = Append(log, last'.op)
            /\ Len(changes') = Len(changes) + 1
            /\ SubSeq(changes', 1, Len(changes)) = changes
            /\ changes'[Len(changes')].mode = ModeOf(last'.op)]_vars

C2_Witness ==
    /\ log = <<"updateSimpleField", "deleteField">>
    /\ Len(changes) = 2

(* C9 as stated: no step changes the payload of an item already in the     *)
(* list.                                                                   *)
C9_NeverMutated ==
    [][\A i \in DOMAIN changes :
          PayloadIn(heap', changes'[i]) = PayloadIn(heap, changes[i])]_vars

\* the RelationType the caller asked for in the last call
Requested == Get(last.arg, "relationType")
\* the last call's input names an ASSET relation
AskedAsset == Get(last.arg, "model") = "Asset" \/ Get(last.arg, "type") = "ASSET"

\* the list-ness table of the specification
TableForward(rt) ==
    CASE rt = "OneToOne" -> FALSE [] rt = "OneToMany" -> TRUE
      [] rt = "ManyToOne" -> FALSE [] rt = "ManyToMany" -> TRUE
TableReverse(rt) ==
    CASE rt = "OneToOne" -> FALSE [] rt = "OneToMany" -> FALSE
      [] rt = "ManyToOne" -> TRUE [] rt = "ManyToMany" -> TRUE

(* C3 as stated: for addRelationalField and addUnionField alike, forward   *)
(* and reverse isList of the registered payload follow the table of the    *)
(* requested RelationType.                                                 *)
C3_ListnessAllRelations ==
    (Returned("addRelationalField") \/ Returned("addUnionField"))
        /\ Requested \in RelationTypes
    => /\ Registered.isList = TableForward(Requested)
       /\ Registered.reverseField.isList = TableReverse(Requested)

(* C3 amended: the forward isList follows the table for every relation     *)
(* operation; the reverse isList follows it for addUnionField and for      *)
(* addRelationalField calls that do not resolve to an ASSET relation, and  *)
(* is true for ASSET relations whatever the RelationType.                  *)
C3_Listness ==
    (Returned("addRelationalField") \/ Returned("addUnionField"))
        /\ Requested \in RelationTypes
    => /\ Registered.isList = TableForward(Requested)
       /\ Registered.reverseField.isList =
             IF last.op = "addRelationalField" /\ AskedAsset
             THEN TRUE ELSE TableReverse(Requested)

C3_Witness ==
    /\ Returned("addRelationalField")
    /\ Requested = "OneToMany"
    /\ ~AskedAsset
    /\ Registered.isList
    /\ ~Registered.reverseField.isList

(* C4: an addRelationalField call that names an ASSET relation registers   *)
(* type "ASSET" with a reverse field that is a list and hidden, and with   *)
(* isRequired false when the caller left it out and the caller's value     *)
(* otherwise; any other addRelationalField call registers type "RELATION"  *)
(* and no isRequired key.                                                  *)
C4_AssetRelation ==
    Returned("addRelationalField") =>
        IF AskedAsset
        THEN /\ Registered.type = "ASSET"
             /\ Has(Registered.reverseField, "isList")
             /\ Registered.reverseField.isList = TRUE
             /\ Has(Registered.reverseField, "isHidden")
             /\ Registered.reverseField.isHidden = TRUE
             /\ Has(Registered, "isRequired")
             /\ Registered.isRequired =
                   IF Has(last.arg, "isRequired") THEN last.arg.isRequired ELSE FALSE
        ELSE /\ Registered.type = "RELATION"
             /\ ~Has(Registered, "isRequired")

C4_Witness ==
    /\ Returned("addRelationalField")
    /\ Get(last.arg, "model") = "Asset"
    /\ Requested = "OneToOne"
    /\ ~Has(last.arg, "reverseField")
    /\ ~Has(last.arg, "isRequired")
    /\ Registered.reverseField.isList
    /\ Registered.isRequired = FALSE

\* the call of Scenario B
ScenarioB == [apiId |-> "author", model |-> "User", relationType |-> "ManyToOne"]

(* C5 as stated: Scenario B on a builder for any model registers a reverse *)
(* field named from the field's own apiId: "relatedauthor", "Related       *)
(* author"; forward singular, reverse list.                                *)
C5_ScenarioBFieldName ==
    Returned("addRelationalField") /\ last.arg = ScenarioB
    => /\ Registered.reverseField.apiId = "relatedauthor"
       /\ Registered.reverseField.displayName = "Related author"
       /\ Registered.isList = FALSE
       /\ Registered.reverseField.isList = TRUE

(* C5 amended: Scenario B registers a Create item whose reverse field is   *)
(* named from the builder's model apiId ("relatedPost" / "Related Post" on *)
(* a builder for Post), with forward isList false and reverse isList true. *)
C5_ScenarioB ==
    Returned("addRelationalField") /\ last.arg = ScenarioB
    => /\ changes[Len(changes)].mode = "Create"
       /\ Builder.args.apiId = "Post" =>
             /\ Registered.reverseField.apiId = "relatedPost"
             /\ Registered.reverseField.displayName = "Related Post"
       /\ Builder.args.apiId = "Page" =>
             /\ Registered.reverseField.apiId = "relatedPage"
             /\ Registered.reverseField.displayName = "Related Page"
       /\ Registered.isList = FALSE
       /\ Registered.reverseField.isList = TRUE

C5_Witness ==
    /\ Returned("addRelationalField")
    /\ last.arg = ScenarioB
    /\ Builder.args.apiId = "Post"
    /\ Registered.reverseField.apiId = "relatedPost"

(* C6: the payload updateSimpleField registers never has a type key,       *)
(* whatever the input; it has modelApiId, set to the builder's model, and  *)
(* every other key the caller supplied, with the caller's value            *)
(* (validations in its extracted form).                                    *)
C6_UpdateDropsType ==
    Returned("updateSimpleField") =>
        /\ ~Has(Registered, "type")
        /\ DOMAIN Registered = (DOMAIN last.arg \cup {"modelApiId"}) \ {"type"}
        /\ Registered.modelApiId = Builder.args.apiId
        /\ \A k \in DOMAIN last.arg \ {"type", "modelApiId", "validations"} :
              Registered[k] = last.arg[k]

C6_Witness ==
    /\ Returned("updateSimpleField")
    /\ Get(last.arg, "type") = "INT"
    /\ Has(last.arg, "validations")
    /\ ~Has(last.arg, "modelApiId")
    /\ Has(Registered, "validations")
    /\ ~Has(Registered, "type")

(* C7: hasChanges() is true for every Create-mode and Delete-mode item;    *)
(* for an Update-mode item it is false when the payload is exactly         *)
(* {apiId} and true when the payload has a key besides apiId.              *)
C7_HasChanges ==
    last.op = "hasChanges" =>
        /\ Builder.mode \in {"Create", "Delete"} => last.ret = TRUE
        /\ Builder.mode = "Update" /\ DOMAIN Builder.args = {"apiId"} => last.ret = FALSE
        /\ Builder.mode = "Update" /\ Has(Builder.args, "apiId")
              /\ DOMAIN Builder.args # {"apiId"} => last.ret = TRUE

C7_Witness ==
    /\ last.op = "hasChanges"
    /\ Builder.mode = "Update"
    /\ DOMAIN Builder.args = {"apiId"}
    /\ last.ret = FALSE
    /\ \E b \in DOMAIN models :
          models[b].mode = "Update" /\ Cardinality(DOMAIN models[b].args) = 2

\* the remoteConfig the caller passed, and the one registered
AskedConfig == last.arg.remoteConfig
SentConfig == Registered.remoteConfig

(* C8: addRemoteField keeps a header value that is already a list, wraps   *)
(* a scalar one into a one-element list, and so returns headers that are   *)
(* already normalized unchanged; absent headers become the empty mapping;  *)
(* method is "GET" and payloadFieldApiIds the empty list only when the     *)
(* caller left them out.                                                   *)
C8_HeadersIdempotent ==
    Returned("addRemoteField") =>
        /\ SentConfig.headers.tag = "Object"
        /\ IF Has(AskedConfig, "headers")
           THEN /\ DOMAIN SentConfig.headers.entries = DOMAIN AskedConfig.headers.entries
                /\ \A k \in DOMAIN AskedConfig.headers.entries :
                      LET v == AskedConfig.headers.entries[k]
                          w == SentConfig.headers.entries[k]
                      IN  IF v.tag = "Array" THEN w = v
                          ELSE w = [tag |-> "Array", elems |-> <<v>>]
                /\ (\A k \in DOMAIN AskedConfig.headers.entries :
                       AskedConfig.headers.entries[k].tag = "Array")
                      => SentConfig.headers = AskedConfig.headers
           ELSE DOMAIN SentConfig.headers.entries = {}
        /\ SentConfig.method =
              IF Has(AskedConfig, "method") THEN AskedConfig.method ELSE "GET"
        /\ SentConfig.payloadFieldApiIds =
              IF Has(AskedConfig, "payloadFieldApiIds")
              THEN AskedConfig.payloadFieldApiIds ELSE <<>>

\* normalized headers have been fed through addRemoteField a second time
C8_Witness ==
    /\ log = <<"addRemoteField", "addRemoteField">>
    /\ Returned("addRemoteField")
    /\ Has(AskedConfig, "headers")
    /\ AskedConfig.headers.entries =
          [XKey |-> Arr(<<Str("abc")>>), Accept |-> Arr(<<Str("json")>>)]
    /\ SentConfig.headers = AskedConfig.headers

\* the keys of the type-specific validation structure
KeyOfType(type) ==
    CASE type = "INT" -> "Int" [] type = "FLOAT" -> "Float" [] type = "STRING" -> "String"
BaseKeys(type) ==
    IF type = "STRING" THEN {"characters", "matches", "notMatches"} ELSE {"range"}

(* C10: with validations present, addSimpleField and updateSimpleField     *)
(* register, for type Int or Float, a structure holding only a range       *)
(* under that type's key and, for type String, only characters, matches    *)
(* and notMatches under the String key; listItemCount is there exactly     *)
(* when the field is list-valued; for any other type, or none, the call    *)
(* throws and returns nothing.                                             *)
C10_ValidationExtraction ==
    last.op \in {"addSimpleField", "updateSimpleField"} /\ Has(last.arg, "validations") =>
        LET type == Get(last.arg, "type")
            isList == Has(last.arg, "isList") /\ last.arg.isList
        IN  IF type \in {"INT", "FLOAT", "STRING"}
            THEN /\ last.err = ""
                 /\ DOMAIN Registered.validations = {KeyOfType(type)}
                 /\ DOMAIN Registered.validations[KeyOfType(type)] =
                       BaseKeys(type) \cup (IF isList THEN {"listItemCount"} ELSE {})
                 /\ \A k \in DOMAIN Registered.validations[KeyOfType(type)] :
                       Registered.validations[KeyOfType(type)][k] =
                          IF k \in DOMAIN last.arg.validations
                          THEN last.arg.validations[k] ELSE Undef
            ELSE last.err = "validations"

C10_Witness ==
    /\ Returned("addSimpleField")
    /\ Get(last.arg, "type") = "INT"
    /\ Has(last.arg, "validations")
    /\ last.arg.validations = Validations
    /\ Has(last.arg, "isList")
    /\ Registered.validations = [Int |-> [range |-> "range", listItemCount |-> "listItemCount"]]
====
